---- MODULE Spec2Model ----
(***************************************************************************)
(* Model of graph/src/components/ethereum/types.rs: the light/store        *)
(* projections of blocks, transactions and receipts, the block query       *)
(* surface (LightEthereumBlockExt), the call extractor                     *)
(* (EthereumCall::try_from_trace) and the call-success evaluator.          *)
(*                                                                         *)
(* Every function of the file is pure.  The state records the last         *)
(* operation that ran, the arguments it ran on and what it returned; a     *)
(* Rust panic (unwrap on None or on a failed conversion) is the return     *)
(* value Panic.                                                            *)
(***************************************************************************)
EXTENDS Integers, Sequences, FiniteSets, TLC

VARIABLES op, arg, ret

vars == <<op, arg, ret>>

(***************************************************************************)
(* Bounds of the model.                                                    *)
(***************************************************************************)
\* H256 and Address values are 0..MaxHash.
MaxHash == 1
\* Integer widths, scaled down: u64 has NumBits + 1 value bits, i64 has
\* NumBits, BlockNumber (a signed type narrower than u64) has NumBits - 1.
NumBits == 3
\* Longest transaction sequence of a block.
MaxTxs == 2
\* Longest receipt sequence of a block.
MaxReceipts == 2
\* Largest receipt status value.
MaxStatus == 2
\* Longest call input, in bytes.
MaxInputLen == 5
\* Largest transaction position of a trace.
MaxTxPos == 1

(***************************************************************************)
(* Option<T>, panics and anyhow::Result.                                   *)
(***************************************************************************)
None == << >>
Some(v) == <<v>>
IsSome(o) == o # << >>
IsNone(o) == o = << >>
Unwrap(o) == o[1]
Option(S) == {None} \cup {Some(v) : v \in S}

Panic == [tag |-> "panic"]
Ret(v) == [tag |-> "ret", val |-> v]
Ok(v) == [tag |-> "Ok", val |-> v]
Err(m) == [tag |-> "Err", msg |-> m]

RECURSIVE Pow2(_)
Pow2(n) == IF n = 0 THEN 1 ELSE 2 * Pow2(n - 1)

U64Max == Pow2(NumBits + 1) - 1
I64Max == Pow2(NumBits) - 1
BlockNumberMax == Pow2(NumBits - 1) - 1

Hashes == 0 .. MaxHash
Addresses == 0 .. MaxHash
U64s == 0 .. U64Max
\* U256 values: those of a u64 and one that does not fit a u64.
U256s == 0 .. (U64Max + 1)

\* Sequences over S of length 0 .. n.
SeqsUpTo(S, n) == UNION {[1 .. k -> S] : k \in 0 .. n}

(***************************************************************************)
(* Transaction Normalizer: impl From<Transaction> for LightTransaction.    *)
(***************************************************************************)
\* A full transaction.  block_hash and block_number stand for the fields of
\* web3's Transaction that LightTransaction does not keep.
MkTransaction(h, k) ==
    [hash |-> h,
     nonce |-> k,
     block_hash |-> Some(h),
     block_number |-> Some(k + 1),
     transaction_index |-> IF k = 0 THEN None ELSE Some(k + 2),
     from |-> IF k = 0 THEN None ELSE Some(0),
     to |-> IF k = 0 THEN Some(1) ELSE None,
     value |-> k + 3,
     gas_price |-> Some(k + 4),
     gas |-> k + 5,
     input |-> <<k, 1>>]

Transactions == {MkTransaction(h, k) : h \in Hashes, k \in 0 .. 1}

LightTransactionFrom(tx) ==
    [hash |-> tx.hash,
     nonce |-> tx.nonce,
     transaction_index |-> tx.transaction_index,
     from |-> tx.from,
     to |-> tx.to,
     value |-> tx.value,
     gas_price |-> tx.gas_price,
     gas |-> tx.gas,
     input |-> tx.input]

(***************************************************************************)
(* Block Version Converter: from_v1 and try_from.                          *)
(***************************************************************************)
\* A Block<Transaction>: the header fields the query surface reads are
\* given, the others are set apart from one another by k.
MkBlockV1(h, n, ph, ts, txs, k) ==
    [hash |-> h,
     parent_hash |-> ph,
     uncles_hash |-> k,
     author |-> k + 1,
     state_root |-> k + 2,
     transactions_root |-> k + 3,
     receipts_root |-> k + 4,
     number |-> n,
     gas_used |-> k + 5,
     gas_limit |-> k + 6,
     base_fee_per_gas |-> IF k = 0 THEN None ELSE Some(k + 7),
     extra_data |-> <<k>>,
     logs_bloom |-> IF k = 0 THEN None ELSE Some(k + 8),
     timestamp |-> ts,
     difficulty |-> k + 9,
     total_difficulty |-> Some(k + 10),
     seal_fields |-> <<<<k, k>>>>,
     uncles |-> <<k + 11>>,
     transactions |-> txs,
     size |-> Some(k + 12),
     mix_hash |-> Some(k + 13),
     nonce |-> Some(k + 14)]

\* Blocks that vary the header fields the query surface reads.
HeaderBlocksV1 ==
    {MkBlockV1(h, n, ph, ts, << >>, 0) :
        h \in Option(Hashes), n \in Option(U64s), ph \in Hashes,
        ts \in {0, I64Max, I64Max + 1, U64Max, U64Max + 1}}

\* Blocks that vary the transaction sequence and the other header fields.
TxBlocksV1 ==
    {MkBlockV1(h, n, 0, 1, txs, k) :
        h \in {None, Some(0)}, n \in {None, Some(1)},
        txs \in SeqsUpTo(Transactions, MaxTxs), k \in 0 .. 1}

LightEthereumBlockV1s == HeaderBlocksV1 \cup TxBlocksV1

\* Mutant: the transactions are collected in reverse order.
RECURSIVE MapLightTransactionFromReversed(_)
MapLightTransactionFromReversed(txs) ==
    IF txs = << >> THEN << >>
    ELSE MapLightTransactionFromReversed(Tail(txs)) \o <<LightTransactionFrom(Head(txs))>>

RECURSIVE MapLightTransactionFrom(_)
MapLightTransactionFrom(txs) ==
    IF txs = << >> THEN << >>
    ELSE <<LightTransactionFrom(Head(txs))>> \o MapLightTransactionFrom(Tail(txs))

from_v1(block) ==
    [hash |-> block.hash,
     parent_hash |-> block.parent_hash,
     uncles_hash |-> block.uncles_hash,
     author |-> block.author,
     state_root |-> block.state_root,
     transactions_root |-> block.transactions_root,
     receipts_root |-> block.receipts_root,
     number |-> block.number,
     gas_used |-> block.gas_used,
     gas_limit |-> block.gas_limit,
     base_fee_per_gas |-> block.base_fee_per_gas,
     extra_data |-> block.extra_data,
     logs_bloom |-> block.logs_bloom,
     timestamp |-> block.timestamp,
     difficulty |-> block.difficulty,
     total_difficulty |-> block.total_difficulty,
     seal_fields |-> block.seal_fields,
     uncles |-> block.uncles,
     transactions |-> MapLightTransactionFrom(block.transactions),
     size |-> block.size,
     mix_hash |-> block.mix_hash,
     nonce |-> block.nonce]

try_from(block) == Ok(from_v1(block))

\* The light blocks the pipeline holds: conversions of fetched blocks.
HeaderBlocks == {from_v1(b) : b \in HeaderBlocksV1}
TxBlocks == {from_v1(b) : b \in TxBlocksV1}

(***************************************************************************)
(* Receipt Normalizer and the EthereumBlockV1 -> EthereumBlockV2 upgrade.  *)
(***************************************************************************)
\* A web3 Log; transaction_for_log reads its transaction_hash alone.
MkLog(txh, k) ==
    [address |-> k,
     topics |-> <<k + 1>>,
     data |-> <<k>>,
     block_hash |-> Some(k),
     block_number |-> Some(k + 2),
     transaction_hash |-> txh,
     transaction_index |-> Some(k + 3),
     log_index |-> Some(k + 4),
     removed |-> Some(FALSE)]

Logs == {MkLog(txh, 0) : txh \in Option(Hashes)}

\* The receipt status values: absent (before EIP-658), 0, 1 and beyond.
Statuses == Option(0 .. MaxStatus)

\* A full receipt.  transaction_type stands for the fields of web3's
\* TransactionReceipt that StoreTransactionReceipt does not keep.
MkReceipt(h, st, k) ==
    [transaction_hash |-> h,
     transaction_index |-> k,
     block_hash |-> Some(k + 1),
     block_number |-> Some(k + 2),
     cumulative_gas_used |-> k + 3,
     gas_used |-> Some(k + 4),
     contract_address |-> IF k = 0 THEN None ELSE Some(k + 5),
     logs |-> <<MkLog(Some(h), k), MkLog(Some(h), k + 1)>>,
     status |-> st,
     root |-> IF st = None THEN Some(k + 6) ELSE None,
     logs_bloom |-> k + 7,
     transaction_type |-> Some(k + 8)]

TransactionReceipts ==
    {MkReceipt(h, st, (h + Len(st)) % 2) : h \in Hashes, st \in Statuses}

\* Mutant: gas_used is filled from cumulative_gas_used.
StoreTransactionReceiptFromCumulative(receipt) ==
    [transaction_hash |-> receipt.transaction_hash,
     transaction_index |-> receipt.transaction_index,
     block_hash |-> receipt.block_hash,
     block_number |-> receipt.block_number,
     cumulative_gas_used |-> receipt.cumulative_gas_used,
     gas_used |-> Some(receipt.cumulative_gas_used),
     contract_address |-> receipt.contract_address,
     logs |-> receipt.logs,
     status |-> receipt.status,
     root |-> receipt.root,
     logs_bloom |-> receipt.logs_bloom]

StoreTransactionReceiptFrom(receipt) ==
    [transaction_hash |-> receipt.transaction_hash,
     transaction_index |-> receipt.transaction_index,
     block_hash |-> receipt.block_hash,
     block_number |-> receipt.block_number,
     cumulative_gas_used |-> receipt.cumulative_gas_used,
     gas_used |-> receipt.gas_used,
     contract_address |-> receipt.contract_address,
     logs |-> receipt.logs,
     status |-> receipt.status,
     root |-> receipt.root,
     logs_bloom |-> receipt.logs_bloom]

\* EthereumBlockV1: a light block body with its full receipts.
EthereumBlockV1s ==
    {[block |-> from_v1(MkBlockV1(h, Some(1), 0, 1, txs, 1)),
      transaction_receipts |-> rs] :
        h \in {None, Some(0)},
        txs \in {<< >>, <<MkTransaction(0, 1)>>},
        rs \in SeqsUpTo(TransactionReceipts, MaxReceipts)}

RECURSIVE MapStoreTransactionReceiptFrom(_)
MapStoreTransactionReceiptFrom(rs) ==
    IF rs = << >> THEN << >>
    ELSE <<StoreTransactionReceiptFrom(Head(rs))>>
             \o MapStoreTransactionReceiptFrom(Tail(rs))

EthereumBlockV2From(b) ==
    [block |-> b.block,
     transaction_receipts |-> MapStoreTransactionReceiptFrom(b.transaction_receipts)]

\* The EthereumBlocks the pipeline holds: upgrades of V1 blocks.
EthereumBlocks == {EthereumBlockV2From(b) : b \in EthereumBlockV1s}

(***************************************************************************)
(* Block Query Surface: impl LightEthereumBlockExt for LightEthereumBlock. *)
(***************************************************************************)
\* BlockNumber::try_from(u64): the checked narrowing of a u64.
BlockNumberTryFrom(n) ==
    IF n <= BlockNumberMax THEN Ok(n) ELSE Err("TryFromIntError")

\* BlockPtr::from((H256, BlockNumber)).
BlockPtrFrom(hash, n) == [hash |-> hash, number |-> n]

\* BlockPtr::from((H256, u64)).
BlockPtrFromU64(hash, n) == [hash |-> hash, number |-> n]

\* BlockTime::since_epoch(secs, nanos).
BlockTimeSinceEpoch(secs, nanos) == [secs |-> secs, nanos |-> nanos]

number(self) ==
    IF IsNone(self.number) THEN Panic
    ELSE LET n == BlockNumberTryFrom(Unwrap(self.number))
         IN IF n.tag = "Ok" THEN Ret(n.val) ELSE Panic

\* txs.iter().find(|tx| tx.hash == hash), scanning from position i.
RECURSIVE FindTransaction(_, _, _)
FindTransaction(txs, hash, i) ==
    IF i > Len(txs) THEN None
    ELSE IF txs[i].hash = hash THEN Some(txs[i])
    ELSE FindTransaction(txs, hash, i + 1)

transaction_for_log(self, log) ==
    IF IsNone(log.transaction_hash) THEN None
    ELSE FindTransaction(self.transactions, Unwrap(log.transaction_hash), 1)

\* Mutant: the scan keeps the last transaction with the hash.
RECURSIVE FindLastTransaction(_, _, _)
FindLastTransaction(txs, hash, i) ==
    IF i < 1 THEN None
    ELSE IF txs[i].hash = hash THEN Some(txs[i])
    ELSE FindLastTransaction(txs, hash, i - 1)

transaction_for_call_last(self, call) ==
    IF IsNone(call.transaction_hash) THEN None
    ELSE FindLastTransaction(self.transactions, Unwrap(call.transaction_hash),
                             Len(self.transactions))

transaction_for_call(self, call) ==
    IF IsNone(call.transaction_hash) THEN None
    ELSE FindTransaction(self.transactions, Unwrap(call.transaction_hash), 1)

\* Mutant: the pointer keeps the block's own height.
parent_ptr_same_height(self) ==
    LET n == number(self)
    IN IF n = Panic THEN Panic
       ELSE IF n.val = 0 THEN Ret(None)
       ELSE Ret(Some(BlockPtrFrom(self.parent_hash, n.val)))

parent_ptr(self) ==
    LET n == number(self)
    IN IF n = Panic THEN Panic
       ELSE IF n.val = 0 THEN Ret(None)
       ELSE Ret(Some(BlockPtrFrom(self.parent_hash, n.val - 1)))

DecDigit(d) ==
    CASE d = 0 -> "0" [] d = 1 -> "1" [] d = 2 -> "2" [] d = 3 -> "3"
      [] d = 4 -> "4" [] d = 5 -> "5" [] d = 6 -> "6" [] d = 7 -> "7"
      [] d = 8 -> "8" [] d = 9 -> "9"

HexDigit(d) ==
    CASE d < 10 -> DecDigit(d)
      [] d = 10 -> "a" [] d = 11 -> "b" [] d = 12 -> "c"
      [] d = 13 -> "d" [] d = 14 -> "e" [] d = 15 -> "f"

\* format!("{}", n) of a U64: decimal, no padding.
RECURSIVE DisplayU64(_)
DisplayU64(n) ==
    IF n < 10 THEN DecDigit(n) ELSE DisplayU64(n \div 10) \o DecDigit(n % 10)

\* format!("{:x}", h) of a hash: two lower-case hex digits for each byte,
\* most significant first, no prefix (the hash is one byte wide here).
LowerHexH256(h) == HexDigit((h \div 16) % 16) \o HexDigit(h % 16)

\* Mutant: the "#" is written before the placeholder too.
format_hash_none(self) ==
    "#" \o (IF IsNone(self.number) THEN "none" ELSE DisplayU64(Unwrap(self.number)))
        \o " ("
        \o (IF IsNone(self.hash) THEN "-" ELSE LowerHexH256(Unwrap(self.hash)))
        \o ")"

format(self) ==
    (IF IsNone(self.number) THEN "none" ELSE "#" \o DisplayU64(Unwrap(self.number)))
        \o " ("
        \o (IF IsNone(self.hash) THEN "-" ELSE LowerHexH256(Unwrap(self.hash)))
        \o ")"

\* Mutant: an absent hash defaults to the zero hash (unwrap_or_default).
block_ptr_default_hash(self) ==
    IF IsNone(self.number) THEN Panic
    ELSE Ret(BlockPtrFromU64(IF IsNone(self.hash) THEN 0 ELSE Unwrap(self.hash),
                             Unwrap(self.number)))

block_ptr(self) ==
    IF IsNone(self.hash) THEN Panic
    ELSE IF IsNone(self.number) THEN Panic
    ELSE Ret(BlockPtrFromU64(Unwrap(self.hash), Unwrap(self.number)))

timestamp(self) ==
    IF self.timestamp > U64Max THEN Panic
    ELSE IF self.timestamp > I64Max THEN Panic
    ELSE Ret(BlockTimeSinceEpoch(self.timestamp, 0))

(***************************************************************************)
(* Call-Success Evaluator.                                                 *)
(***************************************************************************)
\* Mutant: success is status 1 alone.
evaluate_transaction_status_one(receipt_status) ==
    IF IsSome(receipt_status) THEN Unwrap(receipt_status) = 1 ELSE TRUE

evaluate_transaction_status(receipt_status) ==
    IF IsSome(receipt_status) THEN ~(Unwrap(receipt_status) = 0) ELSE TRUE

\* receipts.iter().find(|txn| txn.transaction_hash == hash), from position i.
RECURSIVE FindReceipt(_, _, _)
FindReceipt(receipts, hash, i) ==
    IF i > Len(receipts) THEN None
    ELSE IF receipts[i].transaction_hash = hash THEN Some(receipts[i])
    ELSE FindReceipt(receipts, hash, i + 1)

\* Mutant: a call without a receipt is taken to have succeeded.
transaction_for_call_succeeded_guess(self, call) ==
    IF IsNone(call.transaction_hash)
    THEN Err("failed to find a transaction for this call")
    ELSE LET receipt == FindReceipt(self.ethereum_block.transaction_receipts,
                                    Unwrap(call.transaction_hash), 1)
         IN IF IsNone(receipt)
            THEN Ok(TRUE)
            ELSE Ok(evaluate_transaction_status(Unwrap(receipt).status))

transaction_for_call_succeeded(self, call) ==
    IF IsNone(call.transaction_hash)
    THEN Err("failed to find a transaction for this call")
    ELSE LET receipt == FindReceipt(self.ethereum_block.transaction_receipts,
                                    Unwrap(call.transaction_hash), 1)
         IN IF IsNone(receipt)
            THEN Err("failed to find the receipt for this transaction")
            ELSE Ok(evaluate_transaction_status(Unwrap(receipt).status))

(***************************************************************************)
(* Call Extractor: EthereumCall::try_from_trace.                           *)
(***************************************************************************)
\* `n as BlockNumber` of a u64: keeps the low bits, as a signed value.
AsBlockNumber(n) ==
    LET m == n % (2 * (BlockNumberMax + 1))
    IN IF m > BlockNumberMax THEN m - 2 * (BlockNumberMax + 1) ELSE m

\* The shortest input try_from_trace accepts: a function selector.
SelectorLen == 4

\* A byte string of length n.
MkBytes(n, k) == [i \in 1 .. n |-> (i + k) % 2]

CallActions ==
    {[type |-> "Call", from |-> a[1], to |-> a[2], value |-> a[3],
      gas |-> a[3] + 1, input |-> MkBytes(n, k)] :
        a \in {<<0, 1, 2>>, <<1, 0, 4>>}, n \in 0 .. MaxInputLen, k \in 0 .. 1}

TraceActions ==
    CallActions \cup {[type |-> "Create"], [type |-> "Suicide"], [type |-> "Reward"]}

\* Option<Res>: Res::Call, Res::Create and Res::None.
TraceResults ==
    {None,
     Some([type |-> "Call", gas_used |-> 6, output |-> << >>]),
     Some([type |-> "Call", gas_used |-> 7, output |-> <<1, 0>>]),
     Some([type |-> "Create"]),
     Some([type |-> "None"])}

Traces ==
    [action : TraceActions,
     result : TraceResults,
     error : {None, Some("Reverted")},
     transaction_position : Option(0 .. MaxTxPos),
     transaction_hash : Option(Hashes),
     block_number : {0, 1, BlockNumberMax, BlockNumberMax + 1, U64Max},
     block_hash : Hashes]

\* Mutant: the error field is not looked at.
try_from_trace_keep_errors(trace) ==
    IF ~(trace.action.type = "Call"
         /\ Len(trace.action.input) >= SelectorLen) THEN None
    ELSE IF ~(IsSome(trace.result) /\ Unwrap(trace.result).type = "Call") THEN None
    ELSE IF IsNone(trace.transaction_position) THEN None
    ELSE Some([from |-> trace.action.from,
               to |-> trace.action.to,
               value |-> trace.action.value,
               gas_used |-> Unwrap(trace.result).gas_used,
               input |-> trace.action.input,
               output |-> Unwrap(trace.result).output,
               block_number |-> AsBlockNumber(trace.block_number),
               block_hash |-> trace.block_hash,
               transaction_hash |-> trace.transaction_hash,
               transaction_index |-> Unwrap(trace.transaction_position)])

try_from_trace(trace) ==
    IF IsSome(trace.error) THEN None
    ELSE IF ~(trace.action.type = "Call"
              /\ Len(trace.action.input) >= SelectorLen) THEN None
    ELSE IF ~(IsSome(trace.result) /\ Unwrap(trace.result).type = "Call") THEN None
    ELSE IF IsNone(trace.transaction_position) THEN None
    ELSE Some([from |-> trace.action.from,
               to |-> trace.action.to,
               value |-> trace.action.value,
               gas_used |-> Unwrap(trace.result).gas_used,
               input |-> trace.action.input,
               output |-> Unwrap(trace.result).output,
               block_number |-> AsBlockNumber(trace.block_number),
               block_hash |-> trace.block_hash,
               transaction_hash |-> trace.transaction_hash,
               transaction_index |-> Unwrap(trace.transaction_position)])

\* The calls handed to the lookups: extracted from a trace of each
\* transaction hash.
EthereumCalls ==
    {Unwrap(try_from_trace(t)) :
        t \in {u \in Traces :
                 /\ u.action = [type |-> "Call", from |-> 0, to |-> 1, value |-> 2,
                                gas |-> 3, input |-> MkBytes(SelectorLen, 0)]
                 /\ u.result = Some([type |-> "Call", gas_used |-> 6, output |-> << >>])
                 /\ u.error = None
                 /\ u.transaction_position = Some(0)
                 /\ u.block_number = 1
                 /\ u.block_hash = 0}}

\* EthereumBlockWithCalls: calls is None (not checked yet) or Some(calls).
EthereumBlocksWithCalls ==
    {[ethereum_block |-> b, calls |-> cs] :
        b \in EthereumBlocks, cs \in {None, Some(<< >>)}}

(***************************************************************************)
(* BlockPtr derivations.                                                   *)
(***************************************************************************)
\* impl From<EthereumBlock> for BlockPtr
BlockPtrFromEthereumBlock(b) ==
    IF IsNone(b.block.hash) THEN Panic
    ELSE IF IsNone(b.block.number) THEN Panic
    ELSE Ret(BlockPtrFromU64(Unwrap(b.block.hash), Unwrap(b.block.number)))

\* impl<'a> From<&'a EthereumBlock> for BlockPtr
BlockPtrFromEthereumBlockRef(b) ==
    IF IsNone(b.block.hash) THEN Panic
    ELSE IF IsNone(b.block.number) THEN Panic
    ELSE Ret(BlockPtrFromU64(Unwrap(b.block.hash), Unwrap(b.block.number)))

\* impl<'a> From<&'a EthereumCall> for BlockPtr
BlockPtrFromEthereumCall(call) == BlockPtrFrom(call.block_hash, call.block_number)

\* The EthereumBlocks whose pointer is asked for: any header, no receipts.
PtrEthereumBlocks ==
    {EthereumBlockV2From([block |-> b, transaction_receipts |-> << >>]) :
        b \in HeaderBlocks}

(***************************************************************************)
(* The operations, each on arguments drawn from the sets above.            *)
(***************************************************************************)
Returns(name, a, r) ==
    /\ op' = name
    /\ arg' = a
    /\ ret' = r

CallLightTransactionFrom ==
    /\ op = "idle"
    /\ \E tx \in Transactions :
           Returns("LightTransaction::from", tx, Ret(LightTransactionFrom(tx)))

CallStoreTransactionReceiptFrom ==
    /\ op = "idle"
    /\ \E r \in TransactionReceipts :
           Returns("StoreTransactionReceipt::from", r, Ret(StoreTransactionReceiptFrom(r)))

CallNumber ==
    /\ op = "idle"
    /\ \E b \in HeaderBlocks : Returns("number", b, number(b))

CallTransactionForLog ==
    /\ op = "idle"
    /\ \E b \in TxBlocks, log \in Logs :
           Returns("transaction_for_log", [self |-> b, log |-> log],
                 Ret(transaction_for_log(b, log)))

CallTransactionForCall ==
    /\ op = "idle"
    /\ \E b \in TxBlocks, call \in EthereumCalls :
           Returns("transaction_for_call", [self |-> b, call |-> call],
                 Ret(transaction_for_call(b, call)))

CallParentPtr ==
    /\ op = "idle"
    /\ \E b \in HeaderBlocks : Returns("parent_ptr", b, parent_ptr(b))

CallFormat ==
    /\ op = "idle"
    /\ \E b \in HeaderBlocks : Returns("format", b, Ret(format(b)))

CallBlockPtr ==
    /\ op = "idle"
    /\ \E b \in HeaderBlocks : Returns("block_ptr", b, block_ptr(b))

CallTimestamp ==
    /\ op = "idle"
    /\ \E b \in HeaderBlocks : Returns("timestamp", b, timestamp(b))

CallTransactionForCallSucceeded ==
    /\ op = "idle"
    /\ \E b \in EthereumBlocksWithCalls, call \in EthereumCalls :
           Returns("transaction_for_call_succeeded", [self |-> b, call |-> call],
                 transaction_for_call_succeeded(b, call))

CallEvaluateTransactionStatus ==
    /\ op = "idle"
    /\ \E st \in Statuses :
           Returns("evaluate_transaction_status", st, Ret(evaluate_transaction_status(st)))

CallTryFromTrace ==
    /\ op = "idle"
    /\ \E t \in Traces : Returns("try_from_trace", t, Ret(try_from_trace(t)))

CallBlockPtrFromEthereumBlock ==
    /\ op = "idle"
    /\ \E b \in PtrEthereumBlocks :
           Returns("BlockPtr::from(EthereumBlock)", b, BlockPtrFromEthereumBlock(b))

CallBlockPtrFromEthereumBlockRef ==
    /\ op = "idle"
    /\ \E b \in PtrEthereumBlocks :
           Returns("BlockPtr::from(&EthereumBlock)", b, BlockPtrFromEthereumBlockRef(b))

CallBlockPtrFromEthereumCall ==
    /\ op = "idle"
    /\ \E call \in EthereumCalls :
           Returns("BlockPtr::from(&EthereumCall)", call, Ret(BlockPtrFromEthereumCall(call)))

CallFromV1 ==
    /\ op = "idle"
    /\ \E b \in LightEthereumBlockV1s : Returns("from_v1", b, Ret(from_v1(b)))

CallTryFrom ==
    /\ op = "idle"
    /\ \E b \in LightEthereumBlockV1s : Returns("try_from", b, try_from(b))

CallEthereumBlockV2From ==
    /\ op = "idle"
    /\ \E b \in EthereumBlockV1s :
           Returns("EthereumBlockV2::from", b, Ret(EthereumBlockV2From(b)))

\* The call returns (or its panic is reported) and the next one may start.
Return ==
    /\ op # "idle"
    /\ op' = "idle"
    /\ arg' = None
    /\ ret' = None

Init ==
    /\ op = "idle"
    /\ arg = None
    /\ ret = None

Next ==
    \/ CallLightTransactionFrom
    \/ CallStoreTransactionReceiptFrom
    \/ CallFromV1
    \/ CallTryFrom
    \/ CallEthereumBlockV2From
    \/ CallNumber
    \/ CallTransactionForLog
    \/ CallTransactionForCall
    \/ CallParentPtr
    \/ CallFormat
    \/ CallBlockPtr
    \/ CallTimestamp
    \/ CallTransactionForCallSucceeded
    \/ CallEvaluateTransactionStatus
    \/ CallTryFromTrace
    \/ CallBlockPtrFromEthereumBlock
    \/ CallBlockPtrFromEthereumBlockRef
    \/ CallBlockPtrFromEthereumCall
    \/ Return

Spec == Init /\ [][Next]_vars

(***************************************************************************)
(* Properties.                                                             *)
(***************************************************************************)
\* The positions of the receipts (or transactions) of seq whose hash
\* field f equals h.
Matches(seq, f, h) == {i \in 1 .. Len(seq) : seq[i][f] = h}

\* C1: transaction_for_call_succeeded returns an error when the call has no
\* transaction hash, an error when no receipt of the block has the call's
\* transaction hash, and otherwise Ok(s), s being false exactly when the
\* first receipt with that hash, in sequence order, has status Some(0).
C1_CallSucceeded ==
    op = "transaction_for_call_succeeded" =>
        LET txh == arg.call.transaction_hash
            rs == arg.self.ethereum_block.transaction_receipts
        IN /\ IsNone(txh) => ret.tag = "Err"
           /\ IsSome(txh) /\ Matches(rs, "transaction_hash", Unwrap(txh)) = {}
                 => ret.tag = "Err"
           /\ IsSome(txh) /\ Matches(rs, "transaction_hash", Unwrap(txh)) # {}
                 => \E i \in Matches(rs, "transaction_hash", Unwrap(txh)) :
                        /\ \A j \in Matches(rs, "transaction_hash", Unwrap(txh)) : i <= j
                        /\ ret.tag = "Ok"
                        /\ ret.val = (rs[i].status # Some(0))
                        /\ rs[i].status = Some(1) => ret.val = TRUE

\* C1 witness: two receipts carry the call's hash, the first with status
\* Some(1) and the second with Some(0), and the evaluator answered true.
C1_Witness ==
    /\ op = "transaction_for_call_succeeded"
    /\ IsSome(arg.call.transaction_hash)
    /\ Len(arg.self.ethereum_block.transaction_receipts) = 2
    /\ \A i \in 1 .. 2 :
           arg.self.ethereum_block.transaction_receipts[i].transaction_hash
               = Unwrap(arg.call.transaction_hash)
    /\ arg.self.ethereum_block.transaction_receipts[1].status = Some(1)
    /\ arg.self.ethereum_block.transaction_receipts[2].status = Some(0)
    /\ ret = Ok(TRUE)

\* C2: evaluate_transaction_status gives false for Some(0), true for
\* Some(v) with v nonzero, and true for None.
C2_StatusRule ==
    op = "evaluate_transaction_status" =>
        /\ ret.tag = "ret"
        /\ arg = Some(0) => ret.val = FALSE
        /\ (IsSome(arg) /\ Unwrap(arg) # 0) => ret.val = TRUE
        /\ arg = None => ret.val = TRUE

\* C2 witness: a status greater than 1 was evaluated as success.
C2_Witness ==
    /\ op = "evaluate_transaction_status"
    /\ IsSome(arg)
    /\ Unwrap(arg) > 1
    /\ ret = Ret(TRUE)

\* The four acceptance conditions of the call extractor, as the claim
\* lists them.
Accepts(t) ==
    /\ t.error = None
    /\ t.action.type = "Call"
    /\ ~(Len(t.action.input) \in 0 .. 3)
    /\ t.result # None
    /\ Unwrap(t.result).type = "Call"
    /\ t.transaction_position # None

\* C3: try_from_trace produces a call if and only if the trace has no
\* error, its action is a call with an input of at least 4 bytes, its
\* result is present and a call result, and its transaction position is
\* present; it produces at most one call.
C3_TraceFilter ==
    op = "try_from_trace" =>
        /\ IsSome(ret.val) <=> Accepts(arg)
        /\ Len(ret.val) <= 1

\* C3 witness: a trace with an input of exactly 4 bytes was accepted.
C3_Witness ==
    /\ op = "try_from_trace"
    /\ arg.action.type = "Call"
    /\ Len(arg.action.input) = 4
    /\ IsSome(ret.val)

\* What the lookup by hash must return on transactions txs for an optional
\* hash txh, as the claim states it.
FirstWithHash(txs, txh) ==
    IF IsNone(txh) \/ Matches(txs, "hash", Unwrap(txh)) = {}
    THEN None
    ELSE LET i == CHOOSE k \in Matches(txs, "hash", Unwrap(txh)) :
                      \A j \in Matches(txs, "hash", Unwrap(txh)) : k <= j
         IN Some(txs[i])

\* C4: transaction_for_log returns nothing when the log has no transaction
\* hash or no transaction of the block has it, and otherwise the first
\* transaction in block order with that hash; transaction_for_call is the
\* same lookup by the call's transaction hash, and the two agree whenever
\* the log's and the call's optional hashes are equal.
C4_TransactionLookup ==
    /\ op = "transaction_for_log" =>
           /\ ret.val = FirstWithHash(arg.self.transactions, arg.log.transaction_hash)
           /\ \A call \in EthereumCalls :
                  call.transaction_hash = arg.log.transaction_hash
                      => transaction_for_call(arg.self, call) = ret.val
    /\ op = "transaction_for_call" =>
           /\ ret.val = FirstWithHash(arg.self.transactions, arg.call.transaction_hash)
           /\ \A log \in Logs :
                  log.transaction_hash = arg.call.transaction_hash
                      => transaction_for_log(arg.self, log) = ret.val

\* C4 witness: two different transactions of the block carry the log's
\* hash and the lookup returned the first.
C4_Witness ==
    /\ op = "transaction_for_log"
    /\ IsSome(arg.log.transaction_hash)
    /\ Len(arg.self.transactions) = 2
    /\ arg.self.transactions[1].hash = Unwrap(arg.log.transaction_hash)
    /\ arg.self.transactions[2].hash = Unwrap(arg.log.transaction_hash)
    /\ arg.self.transactions[1] # arg.self.transactions[2]
    /\ ret = Ret(Some(arg.self.transactions[1]))

\* The header fields of a block other than its transactions.
HeaderFields ==
    {"hash", "parent_hash", "uncles_hash", "author", "state_root",
     "transactions_root", "receipts_root", "number", "gas_used", "gas_limit",
     "base_fee_per_gas", "extra_data", "logs_bloom", "timestamp", "difficulty",
     "total_difficulty", "seal_fields", "uncles", "size", "mix_hash", "nonce"}

\* C5: from_v1 and try_from both succeed on every V1 block and give the
\* same V2 block: as many transactions, the i-th one the normalizer's image
\* of the i-th, and every other header field equal to the V1 block's.
C5_BlockConversion ==
    op \in {"from_v1", "try_from"} =>
        /\ op = "from_v1" => ret.tag = "ret" /\ try_from(arg) = Ok(ret.val)
        /\ op = "try_from" => ret.tag = "Ok" /\ from_v1(arg) = ret.val
        /\ Len(ret.val.transactions) = Len(arg.transactions)
        /\ \A i \in 1 .. Len(arg.transactions) :
               ret.val.transactions[i] = LightTransactionFrom(arg.transactions[i])
        /\ DOMAIN ret.val = HeaderFields \cup {"transactions"}
        /\ \A f \in HeaderFields : ret.val[f] = arg[f]

\* C5 witness: try_from converted a block with two different transactions.
C5_Witness ==
    /\ op = "try_from"
    /\ Len(arg.transactions) = 2
    /\ arg.transactions[1] # arg.transactions[2]
    /\ ret.tag = "Ok"
    /\ ret.val.transactions[1].hash = arg.transactions[1].hash
    /\ ret.val.transactions[2].nonce = arg.transactions[2].nonce

\* The fields of a store receipt.
StoreFields ==
    {"transaction_hash", "transaction_index", "block_hash", "block_number",
     "cumulative_gas_used", "gas_used", "contract_address", "logs", "status",
     "root", "logs_bloom"}

\* C6: the EthereumBlockV1 -> EthereumBlockV2 conversion keeps the block
\* body and maps the receipts one by one: same length, same order, every
\* store field equal to the full receipt's.
C6_ReceiptConversion ==
    op = "EthereumBlockV2::from" =>
        /\ ret.val.block = arg.block
        /\ Len(ret.val.transaction_receipts) = Len(arg.transaction_receipts)
        /\ \A i \in 1 .. Len(arg.transaction_receipts) :
               /\ DOMAIN ret.val.transaction_receipts[i] = StoreFields
               /\ \A f \in StoreFields :
                      ret.val.transaction_receipts[i][f] = arg.transaction_receipts[i][f]

\* C6 witness: a block with two different receipts was converted.
C6_Witness ==
    /\ op = "EthereumBlockV2::from"
    /\ Len(arg.transaction_receipts) = 2
    /\ arg.transaction_receipts[1] # arg.transaction_receipts[2]
    /\ Len(ret.val.transaction_receipts) = 2
    /\ ret.val.transaction_receipts[2].status = arg.transaction_receipts[2].status

\* C7 as stated: parent_ptr returns nothing at height 0 and, at every
\* height N > 0, the pointer (parent hash, N - 1).
C7_Original ==
    (op = "parent_ptr" /\ IsSome(arg.number)) =>
        /\ Unwrap(arg.number) = 0 => ret = Ret(None)
        /\ Unwrap(arg.number) > 0 =>
               ret = Ret(Some([hash |-> arg.parent_hash,
                               number |-> Unwrap(arg.number) - 1]))

\* C7 amended: parent_ptr returns nothing at height 0; at a height N > 0
\* that fits BlockNumber it returns the pointer (parent hash, N - 1); at a
\* height that does not fit BlockNumber it aborts.  Whatever it does depends
\* only on the block's number and parent hash.
C7_ParentPtr ==
    (op = "parent_ptr" /\ IsSome(arg.number)) =>
        LET N == Unwrap(arg.number)
        IN /\ N = 0 => ret = Ret(None)
           /\ (N > 0 /\ BlockNumberTryFrom(N).tag = "Ok") =>
                  ret = Ret(Some([hash |-> arg.parent_hash, number |-> N - 1]))
           /\ BlockNumberTryFrom(N).tag = "Err" => ret = Panic
           /\ \A b \in HeaderBlocks :
                  (b.number = arg.number /\ b.parent_hash = arg.parent_hash)
                      => parent_ptr(b) = ret

\* C7 witness: a block above height 1 got its parent's pointer.
C7_Witness ==
    /\ op = "parent_ptr"
    /\ IsSome(arg.number)
    /\ Unwrap(arg.number) > 1
    /\ ret = Ret(Some([hash |-> arg.parent_hash, number |-> Unwrap(arg.number) - 1]))

\* The block header an operation of the query surface or a pointer
\* derivation ran on.
HeaderOf(name, a) ==
    IF name \in {"transaction_for_log", "transaction_for_call"} THEN a.self
    ELSE IF name \in {"BlockPtr::from(EthereumBlock)", "BlockPtr::from(&EthereumBlock)"}
    THEN a.block
    ELSE a

\* C8: block_ptr and the BlockPtr derivations from an EthereumBlock abort
\* when the hash or the number is absent and otherwise return the pointer
\* (own hash, own number); number aborts when the number is absent; none
\* returns a recoverable error.
C8_PointerAborts ==
    /\ op \in {"block_ptr", "BlockPtr::from(EthereumBlock)",
               "BlockPtr::from(&EthereumBlock)"} =>
           LET b == HeaderOf(op, arg)
           IN /\ (IsNone(b.hash) \/ IsNone(b.number)) => ret = Panic
              /\ (IsSome(b.hash) /\ IsSome(b.number)) =>
                     ret = Ret([hash |-> Unwrap(b.hash), number |-> Unwrap(b.number)])
    /\ op = "number" =>
           /\ IsNone(arg.number) => ret = Panic
           /\ ret.tag \in {"panic", "ret"}

\* C8 witness: block_ptr aborted on a block with a number and no hash.
C8_Witness ==
    /\ op = "block_ptr"
    /\ IsNone(arg.hash)
    /\ IsSome(arg.number)
    /\ ret = Panic

\* The operations of the Block Query Surface.
QueryOps ==
    {"number", "transaction_for_log", "transaction_for_call", "parent_ptr",
     "block_ptr", "timestamp", "format"}

\* The string format must give, as the claim states it.
Formatted(b) ==
    (IF b.number = None THEN "none" ELSE "#" \o DisplayU64(Unwrap(b.number)))
        \o " (" \o (IF b.hash = None THEN "-" ELSE LowerHexH256(Unwrap(b.hash))) \o ")"

\* C9 as stated: format completes on every block, and it is the only
\* operation of the query surface that completes on a block whose number or
\* hash is absent.
C9_Original ==
    op \in QueryOps =>
        LET b == HeaderOf(op, arg)
        IN /\ op = "format" => ret = Ret(Formatted(b))
           /\ (op # "format" /\ (IsNone(b.number) \/ IsNone(b.hash))) => ret = Panic

\* C9 amended: format completes on every block and yields "#<number>
\* (<hash>)", with "none" for "#<number>" when the number is absent and "-"
\* for the hash when the hash is absent.  number, parent_ptr and block_ptr
\* abort when the number is absent and block_ptr when the hash is absent,
\* but format is not alone in completing: transaction_for_log and
\* transaction_for_call always complete, timestamp completes whenever the
\* timestamp fits an i64, and parent_ptr does not read the hash.
C9_Format ==
    op \in QueryOps =>
        LET b == HeaderOf(op, arg)
        IN /\ op = "format" =>
                  /\ ret = Ret(Formatted(b))
                  /\ (b.number = None /\ b.hash = None) => ret.val = "none (-)"
                  /\ (b.number = Some(12) /\ b.hash = Some(1)) => ret.val = "#12 (01)"
                  /\ (b.number = None /\ b.hash = Some(0)) => ret.val = "none (00)"
                  /\ (b.number = Some(7) /\ b.hash = None) => ret.val = "#7 (-)"
           /\ (op \in {"number", "parent_ptr", "block_ptr"} /\ IsNone(b.number))
                  => ret = Panic
           /\ (op = "block_ptr" /\ IsNone(b.hash)) => ret = Panic
           /\ op \in {"transaction_for_log", "transaction_for_call"} => ret.tag = "ret"
           /\ op = "timestamp" => (ret = Panic <=> b.timestamp > I64Max)
           /\ (op = "parent_ptr" /\ IsSome(b.number)) =>
                  (ret = Panic <=> BlockNumberTryFrom(Unwrap(b.number)).tag = "Err")

\* C9 witness: format ran on a block with neither number nor hash.
C9_Witness ==
    /\ op = "format"
    /\ IsNone(arg.number)
    /\ IsNone(arg.hash)
    /\ ret = Ret("none (-)")

\* C10: every field of an accepted call comes from the trace: from, to,
\* value and input from the action, output and gas_used from the result,
\* block_hash, transaction_hash and block_number from the trace, and
\* transaction_index from the transaction position.
C10_CallFields ==
    (op = "try_from_trace" /\ IsSome(ret.val)) =>
        LET c == Unwrap(ret.val)
        IN /\ c.from = arg.action.from
           /\ c.to = arg.action.to
           /\ c.value = arg.action.value
           /\ c.input = arg.action.input
           /\ c.output = Unwrap(arg.result).output
           /\ c.gas_used = Unwrap(arg.result).gas_used
           /\ c.block_hash = arg.block_hash
           /\ c.transaction_hash = arg.transaction_hash
           /\ c.transaction_index = Unwrap(arg.transaction_position)
           /\ c.block_number = arg.block_number
====
